---- MODULE Spec2Model ----
(***************************************************************************)
(* kxxxr.js effect runtime: one effect instance (ripple, realistic water,  *)
(* fluid trail or glitch) on one canvas, driven by the host's event loop:  *)
(* the creation call, animation-frame callbacks, pointer events, the idle  *)
(* timer of the fluid effect and dispose().                                *)
(*                                                                         *)
(* Numbers.  Shader and uniform values are fixed-point integers, 1.0 being *)
(* One.  The canvas is W pixels wide and one pixel high; coordinates are   *)
(* counted in half pixels, so pixel i (1..W) has its centre at x = 2i-1    *)
(* and the centre line of the row is y = W (0.5 in UV units, a UV unit     *)
(* being 2W).  Pointer events are delivered on that centre line, so every  *)
(* distance a shader evaluates between real pointer positions and pixel    *)
(* centres is a difference of x coordinates.                               *)
(***************************************************************************)
EXTENDS Integers, Sequences, FiniteSets, TLC

\* ------------------------------------------------------------------ bounds
W == 3            \* canvas width in pixels
MaxDispose == 2   \* dispose() calls explored on one handle
MaxTime == 5      \* ripple clock ticks explored (uTime)
MaxFrame == 3     \* realistic-water / glitch frames explored (frame, uTime)
MaxDt == 2        \* largest per-frame clock delta, in ticks
MaxDecay == 2     \* largest ripple decay rate, in units per tick
MaxSide == 2      \* largest display side, in steps of 200 CSS px
MaxInst == 4      \* effect instances the registry creates in one run

\* ------------------------------------------------------- fixed-point units
One == 1000
UV == 2 * W                 \* one UV unit in half pixels
RowY == W                   \* y of the row's centre line (UV 0.5)
NULL == 0                    \* movementTimeoutId = null (timer ids are positive)

Abs(n) == IF n < 0 THEN -n ELSE n
Min(a, b) == IF a < b THEN a ELSE b
Max(a, b) == IF a > b THEN a ELSE b
Clamp(x, lo, hi) == Min(Max(x, lo), hi)
Mul(a, b) == (a * b) \div One

Isqrt(n) == CHOOSE r \in 0..(n + 1) : r * r <= n /\ (r + 1) * (r + 1) > n

\* length(a - b): exact on the centre line, rounded down elsewhere
Dist(a, b) ==
  IF a[2] = b[2] THEN Abs(a[1] - b[1])
  ELSE Isqrt((a[1] - b[1]) * (a[1] - b[1]) + (a[2] - b[2]) * (a[2] - b[2]))

\* GLSL smoothstep(e0, e1, x) = t*t*(3-2t), t = clamp((x-e0)/(e1-e0), 0, 1),
\* for e0 # e1; the shaders also call it with e0 > e1, where the same
\* expression falls from 1 at e1 to 0 at e0.
SmoothStep(e0, e1, x) ==
  LET t == Clamp(((x - e0) * One) \div (e1 - e0), 0, One)
  IN  Mul(Mul(t, t), 3 * One - 2 * t)

\* the value of a float expression whose result GLSL leaves undefined
NaN == -1

\* the values smoothstep(e0, e1, x) can return.  With e0 = e1 the quotient
\* divides by zero: -inf or +inf clamp to 0 or 1, and at x = e0 it is 0/0,
\* whose clamp is undefined.
SmoothStepResults(e0, e1, x) ==
  IF e0 # e1 THEN {SmoothStep(e0, e1, x)}
  ELSE IF x < e0 THEN {0}
  ELSE IF x > e0 THEN {One}
  ELSE {0, One, NaN}

Pixels == 1..W
PixelCentre(i) == <<2 * i - 1, RowY>>

Kinds == {"ripple", "realistic", "fluid", "glitch"}

VARIABLES
  kind,            \* which creation function is called
  options,         \* the options object passed to it
  status,          \* "new" before the call, then "running" or "threw"
  allocated,       \* GPU-side objects constructed so far
  released,        \* per object: number of dispose() calls made on it
  listeners,       \* event types with a handler registered on the canvas
  rafPending,      \* an animation-frame callback is scheduled
  disposed,        \* the closure's `disposed` flag
  disposeCalls,    \* number of calls of the returned dispose function
  mouse,           \* mouse / uniforms.uMouse (x, y)
  prevMouse,       \* prevMouse (x, y)
  isMoving,        \* fluid: isMoving; realistic water: mouse.z > 1.0
  movementTimeoutId, \* fluid: movementTimeoutId
  pendingTimers,   \* host timers armed and neither fired nor cleared
  pointerOver,     \* host: the pointer is over the canvas
  uPulseAmp,       \* ripple: uniforms.uPulseAmp
  uPulseTime,      \* ripple: uniforms.uPulseTime
  uTime,           \* ripple / glitch: uniforms.uTime (ticks / frames)
  frame,           \* realistic water: frame
  bufA,            \* rtA / trailA contents, one cell per pixel
  bufB,            \* rtB / trailB contents
  ping,            \* "A" or "B": the target read as previous state
  output,          \* colour last written to the visible surface, per pixel
  blend,           \* fluid: blend factor t of the latest display pass, per pixel
  passSeq,         \* history: flips each time render() executes its passes
  rafSeq,          \* history: flips at each requestAnimationFrame call
  lastSteps,       \* history: simulation passes of the latest render()
  lastReadPos,     \* history: position the latest simulation pass read while
                   \* the tracker was active (NoRead: none, or read inactive)
  moveFromIdle,    \* history: the latest move arrived while inactive
  injected,        \* history: the latest simulation pass added energy
  framesSinceMove, \* history: ripple frames rendered since the latest onMove
  touched,         \* history: some pointer event has been delivered
  clientSize,      \* host: canvas.clientWidth, canvas.clientHeight (CSS px)
  canvasSize,      \* canvas.width, canvas.height (backing pixels)
  sizeA,           \* rtA / trailA: width, height
  sizeB,           \* rtB / trailB: width, height
  resized,         \* history: the latest render() changed canvas.width/height
  readZero,        \* history: the first simulation pass of the latest render()
                   \* read a target whose cells were all 0
  inDom,           \* registry: page elements still in the document
  videoState,      \* registry: load progress of the video element
  nMeta,           \* registry: pending `loadedmetadata` listeners (initVideo)
  nData,           \* registry: pending `loadeddata` listeners
  created,         \* registry: effect instances created so far (ids 1..created)
  disposedInst,    \* registry: instances whose dispose function has been called
  activeEffects,   \* registry: activeEffects, element -> instance (Absent: no entry)
  guiDispose,      \* registry: the `dispose` variable of each debug panel's
                   \* recreate closure (Absent: the element has no panel)
  disposes,        \* registry: `disposes` of the latest simple-API call
  debugOn,         \* registry: dat.GUI is loaded and debug is requested
  quiet,           \* history: cleanupKxxxrEffects() returned and neither init,
                   \* reinit nor an effect API has been called since
  given,           \* options: the options / data attributes the caller supplies
  uniforms,        \* options: the values the creation function runs with
  route,           \* options: "none", or how the effect was created
  imageState,      \* host: "decoding", "decoded" or "broken" source image;
                   \* for a video source, "decoded" is readyState >=
                   \* HAVE_CURRENT_DATA
  textureSizes,    \* fluid: the values of uTopTextureSize / uBottomTextureSize
  refreshed,       \* history: the latest render() set tex.needsUpdate = true
  stepLog,         \* history: <<target read, target written>> of each
                   \* simulation pass of the latest render()
  shown,           \* history: the target the latest display pass sampled
  drawnTo,         \* history: the render target of the latest display pass
  lastCall         \* history: <<the handler or callback that ran last, the x
                   \* of its event (0: it has none)>>

hostVars == <<kind, options, status, allocated, released, listeners,
              rafPending, disposed, disposeCalls>>
ptrVars == <<mouse, prevMouse, isMoving, movementTimeoutId, pendingTimers,
             pointerOver>>
simVars == <<uPulseAmp, uPulseTime, uTime, frame, bufA, bufB, ping, output,
             blend>>
histVars == <<passSeq, rafSeq, lastSteps, lastReadPos, moveFromIdle, injected,
              framesSinceMove, touched>>
sizeVars == <<clientSize, canvasSize, sizeA, sizeB, resized, readZero>>
passVars == <<stepLog, shown, drawnTo, refreshed>>
effectVars == <<hostVars, ptrVars, simVars, histVars, sizeVars, passVars,
                lastCall>>
regVars == <<inDom, videoState, nMeta, nData, created, disposedInst,
             activeEffects, guiDispose, disposes, debugOn, quiet>>
cfgVars == <<given, uniforms, route>>
envVars == <<regVars, cfgVars, imageState, textureSizes>>
vars == <<effectVars, envVars>>

\* ------------------------------------------------------------ host inputs
\* x coordinates at which pointer events are delivered (first and last pixel
\* centre and the boundary between the first two pixels)
PtrXs == {1, 2, 2 * W - 1}
\* per-frame clock deltas of THREE.Clock.getDelta() between two animation
\* frames, in ticks
Dts == 1..MaxDt
\* display sizes the host lays the canvas out with (a square element that
\* scales with its container)
Sizes == { <<200 * n, 200 * n>> : n \in 1..MaxSide }
\* source images: one grey level per pixel
Images == { [i \in Pixels |-> ((i - 1) * One) \div W],
            [i \in Pixels |-> One - ((i - 1) * One) \div W] }

TypeOK ==
  /\ kind \in Kinds
  /\ status \in {"new", "running", "threw"}
  /\ listeners \subseteq {"mousemove", "mouseleave"}
  /\ rafPending \in BOOLEAN /\ disposed \in BOOLEAN
  /\ disposeCalls \in 0..MaxDispose
  /\ isMoving \in BOOLEAN /\ pointerOver \in BOOLEAN
  /\ ping \in {"A", "B"}
  /\ passSeq \in {0, 1} /\ rafSeq \in {0, 1}
  /\ imageState \in {"decoding", "decoded", "broken"}
  /\ route \in {"none", "direct", "auto", "simple"}
  /\ shown \in {"none", "image", "A", "B"}
  /\ drawnTo \in {"none", "screen"}
  /\ Len(stepLog) \in 0..2

\* ------------------------------------------------------------------ ripple
\* Math.exp(-k * ln(10)/2) in fixed point: the decay rate is counted in
\* units of ln(10)/2 per tick, so that decay * dt = k is an integer
ExpTable == <<316, 100, 32, 10, 3, 1>>
ExpNeg(k) == IF k <= 0 THEN One ELSE IF k <= Len(ExpTable) THEN ExpTable[k] ELSE 0
Ln10Half == (1151 * One) \div 1000   \* ln(10)/2
\* exp(-y) for a fixed-point y >= 0
ExpFix(y) == ExpNeg((y * 1000) \div (Ln10Half * One))

\* sin(p) for a fixed-point p in radians: the piecewise linear wave through
\* the zeros and extrema of sin
Pi == (3142 * One) \div 1000
Sin(p) ==
  LET m == p % (2 * Pi)
  IN  IF m < Pi \div 2 THEN (m * One) \div (Pi \div 2)
      ELSE IF m < 3 * (Pi \div 2) THEN ((Pi - m) * One) \div (Pi \div 2)
      ELSE ((m - 2 * Pi) * One) \div (Pi \div 2)

Epsilon == 10    \* 0.01, the auto-stop amplitude

\* uniforms.uPulseAmp after one render(): decay, then auto-stop
RippleAmpNoStop(amp, decay, dt) == Mul(amp, ExpNeg(decay * dt))
RippleAmp(amp, decay, dt) ==
  LET a == Mul(amp, ExpNeg(decay * dt))
  IN  IF a < Epsilon THEN 0 ELSE a

\* lengths in half pixels as fixed-point UV values and back
ToUV(len) == (len * One) \div UV
FromUV(v) == (v * UV) \div One

\* float disp of the ripple fragment shader at pixel i
RippleDisp(i, m, pulseTime, amp, o) ==
  LET d      == ToUV(Dist(PixelCentre(i), m))
      center == pulseTime * o.pulseSpeed
      x      == ((d - center) * One) \div Max(o.radius, 1)
      \* exp(-x*x) is below the fixed-point resolution for |x| >= 4
      xc     == Clamp(x, -4 * One, 4 * One)
      env    == ExpFix(Mul(xc, xc))
      phase  == Mul(d - center, o.frequency)
      wave   == Sin(phase)
  IN  Mul(Mul(Mul(env, wave), o.strength), amp)

\* pixel whose texel texture2D(uTex, uv) returns for uv = vUv + dir * disp
\* (clamp-to-edge addressing, nearest texel)
RippleSample(i, m, disp) ==
  LET c    == PixelCentre(i)
      len  == Dist(c, m)
      dirx == IF len = 0 THEN 707 ELSE ((c[1] - m[1]) * One) \div len
      x    == c[1] + FromUV(Mul(dirx, disp))
  IN  Clamp((x \div 2) + 1, 1, W)

\* pow(c, 0.5) * 1.1 as stored in the 8-bit surface (values above 1 clamp)
Sqrt(c) == Isqrt(c * One)
RippleGrade(c) == Min(Mul(Sqrt(c), 1100), One)

RippleOutput(m, pulseTime, amp, o) ==
  [i \in Pixels |->
     RippleGrade(o.image[RippleSample(i, m, RippleDisp(i, m, pulseTime, amp, o))])]

\* ------------------------------------------------------------- fluid trail
\* a point given in half pixels as a fixed-point UV vector
UVPoint(v) == <<ToUV(v[1]), ToUV(v[2])>>

\* fluidMaterial.uniforms.uIsMoving.value = isMoving; if (uIsMoving) { ... }
uIsMovingIgnored(moving) == TRUE
uIsMoving(moving) == moving

\* intensity added at pixel i by one pass of the fluid fragment shader
FluidIntensity(i, m, pm, moving, o) ==
  LET uv   == UVPoint(PixelCentre(i))
      a    == UVPoint(pm)
      b    == UVPoint(m)
      len  == Dist(b, a)
      dirx == ((b[1] - a[1]) * One) \div len
      diry == ((b[2] - a[2]) * One) \div len
      proj == Clamp(Mul(uv[1] - a[1], dirx) + Mul(uv[2] - a[2], diry), 0, len)
      cp   == <<a[1] + Mul(proj, dirx), a[2] + Mul(proj, diry)>>
  IN  IF uIsMoving(moving) /\ len > 1
        THEN Mul(SmoothStep(o.lineWidth, 0, Dist(uv, cp)), o.lineIntensity)
        ELSE 0

\* one pass of the fluid fragment shader over the target read as uPrevTrails
FluidPassNoDecay(prev, m, pm, moving, o) ==
  [i \in Pixels |-> prev[i] + FluidIntensity(i, m, pm, moving, o)]
FluidPass(prev, m, pm, moving, o) ==
  [i \in Pixels |-> Mul(prev[i], o.decay) + FluidIntensity(i, m, pm, moving, o)]

\* Math.floor of a fixed-point value
Floor(v) == v \div One

\* const steps = Math.max(1, Math.floor(speed)); speed is given as its whole
\* part o.speed and its fraction o.speedFrac
FluidStepsCeil(o) == Max(1, Floor(o.speed * One + o.speedFrac + One - 1))
FluidSteps(o) == Max(1, Floor(o.speed * One + o.speedFrac))

\* the other target of the pair
Other(t) == IF t = "A" THEN "B" ELSE "A"

\* const temp = trailPing; trailPing = trailPong; trailPong = temp
SwapKeep(t) == t
Swap(t) == Other(t)

RECURSIVE FluidRun(_, _, _, _, _, _)
\* n passes with a swap after each; returns the target pair, ping and, in
\* log, the <<target read, target written>> of every pass
FluidRun(n, st, m, pm, moving, o) ==
  IF n = 0 THEN st
  ELSE LET src == IF st.ping = "A" THEN st.A ELSE st.B
           new == FluidPass(src, m, pm, moving, o)
           nxt == [A |-> IF st.ping = "A" THEN st.A ELSE new,
                   B |-> IF st.ping = "A" THEN new ELSE st.B,
                   ping |-> Swap(st.ping),
                   log |-> Append(st.log, <<st.ping, Other(st.ping)>>)]
       IN  FluidRun(n - 1, nxt, m, pm, moving, o)

\* float edgeW = uEdgeWidth / uDpr
FluidEdge(o) == o.edgeWidth \div o.dpr

\* the values the blend factor t of the display shader can take at a pixel
\* with the given trail value
FluidBlend(trail, o) ==
  SmoothStepResults(o.threshold, o.threshold + FluidEdge(o), trail)

\* the blend factors one display pass can compute over the sampled target
FluidBlends(trail, o) ==
  { t \in [Pixels -> {0, NaN} \cup UNION { FluidBlend(trail[i], o) : i \in Pixels }] :
      \A i \in Pixels : t[i] \in FluidBlend(trail[i], o) }

\* mix(top, bottom, t); without backImageUrl the bottom texture is the top one
FluidOutput(t, o) ==
  [i \in Pixels |->
     LET top == o.image[i]
         bot == IF o.backImage THEN o.image[W + 1 - i] ELSE o.image[i]
     IN  IF t[i] = NaN THEN NaN ELSE Mul(top, One - t[i]) + Mul(bot, t[i])]

\* --------------------------------------------------------- realistic water
ZeroCell == <<0, 0, 0, 0>>
ZeroBuf == [i \in Pixels |-> ZeroCell]

\* energy the physics shader adds to the pressure of pixel i (lengths in half
\* pixels, speed in pixels per frame)
WaterInjection(i, m, pm, o) ==
  LET c         == PixelCentre(i)
      headFall  == SmoothStep(o.effectRadius, 0, Dist(c, m))
      ab        == Dist(m, pm)
      t         == IF ab = 0 THEN 0
                   ELSE Clamp((((c[1] - pm[1]) * (m[1] - pm[1])
                               + (c[2] - pm[2]) * (m[2] - pm[2])) * One)
                              \div (ab * ab), 0, One)
      projP     == <<pm[1] + Mul(t, m[1] - pm[1]), pm[2] + Mul(t, m[2] - pm[2])>>
      tailFall  == SmoothStep(o.tailWidth, 0, Dist(c, projP))
      speed     == (ab * One) \div 2
      speedScale == Clamp(Mul(speed, 20), 500, 3000)
  IN  Mul(o.headStrength, headFall) + Mul(Mul(o.tailStrength, tailFall), speedScale)

\* gl_FragColor of the physics shader at pixel i
WaterCell(prev, i, m, pm, hover, iFrame, o) ==
  LET pressure == prev[i][1]
      pVel     == prev[i][2]
      \* neighbours, clamp-to-edge addressing (one row: up and down are i)
      r0 == prev[Min(i + 1, W)][1]
      l0 == prev[Max(i - 1, 1)][1]
      \* Neumann-ish boundaries, in the order of the shader
      l1 == IF i = 1 THEN r0 ELSE l0
      r1 == IF i = W THEN l1 ELSE r0
      up == pressure
      dn == pressure
      v1 == pVel + Mul(Mul(o.simulationSpeed, -2 * pressure + r1 + l1), 250)
      v2 == v1 + Mul(Mul(o.simulationSpeed, -2 * pressure + up + dn), 250)
      p1 == pressure + Mul(o.simulationSpeed, v2)
      v3 == v2 - Mul(Mul(5, o.simulationSpeed), p1)
      v4 == Mul(v3, One - Mul(2, o.simulationSpeed))
      p2 == Mul(p1, 999)
      gradX == (r1 - l1) \div 2
      gradY == (up - dn) \div 2
      add == IF hover THEN WaterInjection(i, m, pm, o) ELSE 0
  IN  IF iFrame = 0 THEN ZeroCell ELSE <<p2 + add, v4, gradX, gradY>>

WaterPassSeeded(prev, m, pm, hover, iFrame, o) ==
  [i \in Pixels |->
     IF iFrame = 0 THEN <<One, 0, 0, 0>>
     ELSE WaterCell(prev, i, m, pm, hover, iFrame, o)]
WaterPass(prev, m, pm, hover, iFrame, o) ==
  [i \in Pixels |-> WaterCell(prev, i, m, pm, hover, iFrame, o)]

\* x^60 by repeated squaring
Pow60(x) ==
  LET x2 == Mul(x, x)  x4 == Mul(x2, x2)  x8 == Mul(x4, x4)
      x16 == Mul(x8, x8)  x32 == Mul(x16, x16)
  IN  Mul(Mul(Mul(x32, x16), x8), x4)

\* gl_FragColor of the display shader at pixel i (grey image: the saturation
\* mix leaves the value unchanged; contrast 1.0; brightness 1.2)
WaterColour(data, i, o) ==
  LET gx   == data[i][3]
      gy   == data[i][4]
      x    == (2 * i - 1) + FromUV(Mul(200, gx))
      col  == o.image[Clamp((x \div 2) + 1, 1, W)]
      nlen == Max(Isqrt(gx * gx + 200 * 200 + gy * gy), 1)
      \* normalize(vec3(-3, 10, 3)) = (-0.276, 0.921, 0.276)
      ndl  == ((-gx) * (-276) + 200 * 921 + (-gy) * 276) \div nlen
      refl == Pow60(Max(0, ndl))
      c1   == col + Mul(500, refl)
  IN  Min(Mul(c1, 1200), One)

WaterOutput(data, o) == [i \in Pixels |-> WaterColour(data, i, o)]

\* ---------------------------------------------------------------- creation
\* the off-surface value the pointer vectors are constructed with
Sentinel(k) ==
  CASE k = "ripple"    -> <<-10 * UV, -10 * UV>>
    [] k = "fluid"     -> <<-100 * UV, -100 * UV>>
    [] k = "realistic" -> <<-200, -200>>
    [] OTHER           -> <<0, 0>>

\* objects with a dispose() method that the creation function constructs
Resources(k, o) ==
  CASE k = "ripple"    -> {"renderer", "texture", "geometry", "material"}
    [] k = "realistic" -> {"renderer", "rtA", "rtB", "imageTex", "quad.geometry",
                           "finalQuad.geometry", "physicsMaterial", "displayMaterial"}
    [] k = "fluid"     -> {"renderer", "trailA", "trailB", "topTexture",
                           "quad.geometry", "fluidMaterial", "displayMaterial"}
                          \cup (IF o.backImage THEN {"bottomTexture"} ELSE {})
    [] OTHER           -> {"renderer", "tex", "geometry", "material"}

AllResources ==
  {"renderer", "texture", "geometry", "material", "rtA", "rtB", "imageTex",
   "quad.geometry", "finalQuad.geometry", "physicsMaterial", "displayMaterial",
   "trailA", "trailB", "topTexture", "bottomTexture", "fluidMaterial", "tex"}

\* objects whose dispose() one call of the returned dispose function invokes
DisposeList(k, o) ==
  CASE k = "ripple"    -> {"geometry", "material", "renderer", "texture"}
    [] k = "realistic" -> {"rtA", "rtB", "imageTex", "quad.geometry",
                           "finalQuad.geometry", "physicsMaterial",
                           "displayMaterial", "renderer"}
    [] k = "fluid"     -> {"topTexture", "trailA", "trailB", "quad.geometry",
                           "fluidMaterial", "displayMaterial", "renderer"}
                          \cup (IF o.backImage THEN {"bottomTexture"} ELSE {})
    [] OTHER           -> {"tex", "geometry", "material", "renderer"}

\* if (!imageUrl) throw ... ; glitch: if (!imageUrl && !videoElement) throw ...
SourceUnchecked(k, o) == TRUE
HasSource(k, o) ==
  IF k = "glitch" THEN o.source \in {"image", "video"} ELSE o.source = "image"

\* canvas.addEventListener calls of the creation function
HandlersAll(k) == {"mousemove", "mouseleave"}
Handlers(k) == IF k = "glitch" THEN {} ELSE {"mousemove", "mouseleave"}

HasSimulation(k) == k \in {"fluid", "realistic"}

\* contents of a render target as allocated (WebGL zero-initialises)
FreshBuf(k) ==
  CASE k = "fluid"     -> [i \in Pixels |-> 0]
    [] k = "realistic" -> ZeroBuf
    [] OTHER           -> <<>>

\* lastReadPos when the latest simulation pass read an inactive tracker
NoRead == <<>>

\* ------------------------------------------------------------------ sizing
\* size * ratio for an integer device pixel ratio (Math.round and Math.floor
\* leave it as it is)
Scale(sz, r) == <<sz[1] * r, sz[2] * r>>
NoSize == <<0, 0>>

\* the pixel ratio the renderer is given: ripple and realistic water 1,
\* fluid and glitch Math.min(window.devicePixelRatio || 1, 2)
PixelRatio(k, o) == IF k \in {"fluid", "glitch"} THEN Min(o.dpr, 2) ELSE 1

\* canvas.width / canvas.height after the renderer.setSize(w, h, false) call
\* of the creation function (THREE sets them to floor(w * pixelRatio))
CreationCanvas(k, o, client) ==
  CASE k = "realistic" -> <<Min(client[1], 384), Min(client[2], 288)>>
    [] OTHER           -> Scale(<<Max(1, client[1]), Max(1, client[2])>>,
                                PixelRatio(k, o))

\* width / height the render targets are constructed with
CreationTarget(k, o, client) ==
  CASE k = "realistic" -> <<Min(client[1], 384), Min(client[2], 288)>>
    [] k = "fluid"     -> client
    [] OTHER           -> NoSize

\* WebGLRenderTarget.setSize(w, h): a target that changes size is disposed
\* and allocated again (zero-initialised) at its next use; a call with the
\* size the target has keeps its texture
TargetSetSize(k, size, cells, new) ==
  IF size = new THEN [size |-> size, cells |-> cells]
  ELSE [size |-> new, cells |-> FreshBuf(k)]

\* the size the resize check of render() compares canvas.width/height with
WantedSize(k, o, client) ==
  CASE k = "realistic" -> Scale(client, o.dpr)
    [] k = "fluid"     -> Scale(client, PixelRatio(k, o))
    [] k = "glitch"    -> Scale(<<Max(1, client[1]), Max(1, client[2])>>,
                                PixelRatio(k, o))
    [] OTHER           -> NoSize

\* the resize step at the head of render(), from closure state s: ripple has
\* none; realistic water sets canvas.width/height itself; fluid passes the
\* CSS size and glitch the device size to renderer.setSize, which multiplies
\* by the pixel ratio
ResizeStep(k, o, client, s) ==
  LET want == WantedSize(k, o, client)
      a    == TargetSetSize(k, s.sizeA, s.A, want)
      b    == TargetSetSize(k, s.sizeB, s.B, want)
  IN  IF k = "ripple" \/ s.canvas = want THEN s
      ELSE IF k = "glitch"
        THEN [s EXCEPT !.canvas = Scale(want, PixelRatio(k, o))]
      ELSE [s EXCEPT !.canvas = want, !.sizeA = a.size, !.A = a.cells,
                     !.sizeB = b.size, !.B = b.cells]

\* the closure state right after the declarations of the creation function
FreshPulsing(k) ==
  [amp |-> One, ptime |-> 0, time |-> 0, frame |-> 0,
   A |-> FreshBuf(k), B |-> FreshBuf(k), ping |-> "A",
   m |-> Sentinel(k), pm |-> Sentinel(k), moving |-> FALSE,
   read |-> NoRead, fsm |-> 0,
   passSeq |-> 0, rafSeq |-> 0,
   canvas |-> CreationCanvas(k, options, clientSize),
   sizeA |-> CreationTarget(k, options, clientSize),
   sizeB |-> CreationTarget(k, options, clientSize)]
Fresh(k) ==
  [amp |-> 0, ptime |-> 0, time |-> 0, frame |-> 0,
   A |-> FreshBuf(k), B |-> FreshBuf(k), ping |-> "A",
   m |-> Sentinel(k), pm |-> Sentinel(k), moving |-> FALSE,
   read |-> NoRead, fsm |-> 0,
   passSeq |-> 0, rafSeq |-> 0,
   canvas |-> CreationCanvas(k, options, clientSize),
   sizeA |-> CreationTarget(k, options, clientSize),
   sizeB |-> CreationTarget(k, options, clientSize)]

Cur ==
  [amp |-> uPulseAmp, ptime |-> uPulseTime, time |-> uTime, frame |-> frame,
   A |-> bufA, B |-> bufB, ping |-> ping,
   m |-> mouse, pm |-> prevMouse, moving |-> isMoving,
   read |-> lastReadPos, fsm |-> framesSinceMove,
   passSeq |-> passSeq, rafSeq |-> rafSeq,
   canvas |-> canvasSize, sizeA |-> sizeA, sizeB |-> sizeB]

\* ------------------------------------------------------------------ render
\* renderer.setRenderTarget(null): the display pass draws to the canvas
Screen == "screen"

\* fluid: displayMaterial.uniforms.uFluid.value = trailPing.texture, after the
\* swaps of the loop, when trailPing is the target the last pass wrote
FluidShownStale(pingAfter) == Other(pingAfter)
FluidShown(pingAfter) == pingAfter

\* realistic water: displayMaterial.uniforms.iChannel0.value = pong.texture,
\* before the swap, when pong is the target the pass wrote
WaterShownStale(pingBefore) == pingBefore
WaterShown(pingBefore) == Other(pingBefore)

\* what a shader samples from the image texture: the decoded image, or the
\* black of a texture whose image has not arrived
Bound(o) ==
  [o EXCEPT !.image = IF imageState = "decoded" THEN @ ELSE [i \in Pixels |-> 0]]

\* the body of render() after the `if (disposed) return` check, started from
\* the closure state s with clock delta dt
RenderRipple(dt, s) ==
  /\ uTime' = s.time + dt
  /\ uPulseTime' = s.ptime + dt
  /\ uPulseAmp' = RippleAmp(s.amp, options.decay, dt)
  /\ output' = RippleOutput(s.m, s.ptime + dt,
                            RippleAmp(s.amp, options.decay, dt), Bound(options))
  /\ frame' = s.frame /\ bufA' = s.A /\ bufB' = s.B /\ ping' = s.ping
  /\ lastSteps' = 0 /\ injected' = FALSE
  /\ lastReadPos' = s.read
  /\ blend' = blend
  /\ stepLog' = <<>> /\ shown' = "image" /\ drawnTo' = Screen
  /\ refreshed' = FALSE

\* glitch render(): if (isVideo && videoElement && videoElement.readyState >=
\* videoElement.HAVE_CURRENT_DATA) tex.needsUpdate = true
VideoRefreshAlways(isVideo, ready) == isVideo
VideoRefresh(isVideo, ready) == isVideo /\ ready

RenderGlitch(s) ==
  /\ uTime' = s.time + options.speed
  \* the surface colour is a function of (pixel, uTime, options) only; the
  \* model keeps the uTime the frame was drawn with in its place
  /\ output' = [i \in Pixels |-> s.time + options.speed]
  /\ uPulseTime' = s.ptime /\ uPulseAmp' = s.amp
  /\ frame' = s.frame /\ bufA' = s.A /\ bufB' = s.B /\ ping' = s.ping
  /\ lastSteps' = 0 /\ injected' = FALSE
  /\ lastReadPos' = s.read
  /\ blend' = blend
  /\ stepLog' = <<>> /\ shown' = "image" /\ drawnTo' = Screen
  /\ refreshed' = VideoRefresh(options.source = "video", imageState = "decoded")

RenderWater(s) ==
  LET src == IF s.ping = "A" THEN s.A ELSE s.B
      new == WaterPass(src, s.m, s.pm, s.moving, s.frame, options)
      newA == IF s.ping = "A" THEN s.A ELSE new
      newB == IF s.ping = "A" THEN new ELSE s.B
  IN  /\ bufA' = newA
      /\ bufB' = newB
      \* display pass samples pong.texture, then the swap
      /\ output' = WaterOutput(IF WaterShown(s.ping) = "A" THEN newA ELSE newB,
                               Bound(options))
      /\ blend' = blend
      /\ stepLog' = << <<s.ping, Other(s.ping)>> >>
      /\ shown' = WaterShown(s.ping) /\ drawnTo' = Screen
      /\ refreshed' = FALSE
      /\ ping' = Swap(s.ping)
      /\ frame' = s.frame + 1
      /\ uTime' = s.time /\ uPulseTime' = s.ptime /\ uPulseAmp' = s.amp
      /\ lastSteps' = 1
      /\ injected' = (s.moving /\ s.frame # 0
                      /\ \E i \in Pixels : WaterInjection(i, s.m, s.pm, options) # 0)
      /\ lastReadPos' = (IF s.moving THEN s.m ELSE NoRead)

RenderFluid(s) ==
  LET n   == FluidSteps(options)
      end == FluidRun(n, [A |-> s.A, B |-> s.B, ping |-> s.ping, log |-> <<>>],
                      s.m, s.pm, s.moving, options)
      src == FluidShown(end.ping)
  IN  /\ bufA' = end.A /\ bufB' = end.B /\ ping' = end.ping
      \* display pass samples trailPing.texture after the last swap
      /\ blend' \in FluidBlends(IF src = "A" THEN end.A ELSE end.B, options)
      /\ output' = FluidOutput(blend', Bound(options))
      /\ stepLog' = end.log /\ shown' = src /\ drawnTo' = Screen
      /\ refreshed' = FALSE
      /\ frame' = s.frame
      /\ uTime' = s.time /\ uPulseTime' = s.ptime /\ uPulseAmp' = s.amp
      /\ lastSteps' = n
      /\ injected' = \E i \in Pixels :
                        FluidIntensity(i, s.m, s.pm, s.moving, options) # 0
      /\ lastReadPos' = (IF s.moving THEN s.m ELSE NoRead)

RenderBody(dt, s) ==
  LET r == ResizeStep(kind, options, clientSize, s)
  IN  /\ CASE kind = "ripple"    -> RenderRipple(dt, r)
           [] kind = "realistic" -> RenderWater(r)
           [] kind = "fluid"     -> RenderFluid(r)
           [] OTHER              -> RenderGlitch(r)
      /\ canvasSize' = r.canvas /\ sizeA' = r.sizeA /\ sizeB' = r.sizeB
      /\ resized' = (r.canvas # s.canvas)
      /\ readZero' = (HasSimulation(kind) =>
                        (IF r.ping = "A" THEN r.A ELSE r.B) = FreshBuf(kind))
      /\ rafPending' = TRUE
      /\ rafSeq' = 1 - s.rafSeq
      /\ passSeq' = 1 - s.passSeq
      /\ framesSinceMove' = (IF kind = "ripple" THEN Min(s.fsm + 1, MaxTime) ELSE s.fsm)

\* the explored part of the unbounded clocks and counters
WithinBounds(dt) ==
  CASE kind = "ripple"    -> uTime + dt <= MaxTime
    [] kind = "realistic" -> frame < MaxFrame
    [] kind = "glitch"    -> uTime + options.speed <= MaxFrame
    [] OTHER              -> TRUE

\* fluid: topTextureSize and bottomTextureSize are constructed as
\* Vector2(1024, 1024); without backImageUrl the creation function then runs
\* bottomTextureSize.copy(topTextureSize), before any image has loaded
HintDefault == <<1024, 1024>>
NoHints == [top |-> NoSize, bottom |-> NoSize]
CreationHints(k, o) ==
  IF k # "fluid" THEN NoHints
  ELSE LET top == HintDefault
       IN  [top |-> top, bottom |-> IF o.backImage THEN HintDefault ELSE top]

\* the onLoad callbacks of the fluid effect: the top image's sets
\* topTextureSize, the back image's (registered only with backImageUrl) sets
\* bottomTextureSize; the back image is taken to decode with the top image
OnLoad(k, o, h, top, back) ==
  IF k # "fluid" THEN h
  ELSE [top |-> top, bottom |-> IF o.backImage THEN back ELSE h.bottom]

\* waterHoverEffect / realisticWaterHoverEffect / fluidSimulationEffect /
\* glitchEffect called with `options`: throws without a source, otherwise
\* constructs everything, registers the handlers and runs render() once
\* (THREE.Clock.getDelta() returns 0 on its first call)
Create ==
  /\ status = "new"
  /\ UNCHANGED <<regVars, cfgVars, imageState>>
  /\ textureSizes' = IF HasSource(kind, options)
                       THEN CreationHints(kind, options) ELSE textureSizes
  /\ lastCall' = <<"create", 0>>
  /\ IF ~HasSource(kind, options)
       THEN /\ status' = "threw"
            /\ UNCHANGED <<kind, options, allocated, released, listeners,
                           rafPending, disposed, disposeCalls>>
            /\ UNCHANGED <<ptrVars, simVars, histVars, sizeVars, passVars>>
       ELSE /\ status' = "running"
            /\ allocated' = Resources(kind, options)
            /\ listeners' = Handlers(kind)
            /\ mouse' = Sentinel(kind) /\ prevMouse' = Sentinel(kind)
            /\ isMoving' = FALSE
            /\ RenderBody(0, Fresh(kind))
            /\ UNCHANGED <<kind, options, released, disposed, disposeCalls,
                           movementTimeoutId, pendingTimers, pointerOver,
                           moveFromIdle, touched, clientSize>>

\* render(): `if (disposed) return;` lets the body run only while this holds
RenderNoCheck(isDisposed) == TRUE
RenderAllowed(isDisposed) == ~isDisposed

\* render() has no other condition: no pass and no requestAnimationFrame
\* depends on the image of a texture (img: the state of the source image)
RenderGuardReady(isDisposed, img) == RenderAllowed(isDisposed) /\ img = "decoded"
RenderGuard(isDisposed, img) == RenderAllowed(isDisposed)

\* the host runs the scheduled animation-frame callback: render()
Frame(dt) ==
  /\ status = "running" /\ rafPending
  /\ UNCHANGED envVars
  /\ lastCall' = <<"render", 0>>
  /\ IF ~RenderGuard(disposed, imageState)
       THEN /\ rafPending' = FALSE
            /\ UNCHANGED <<kind, options, status, allocated, released,
                           listeners, disposed, disposeCalls>>
            /\ UNCHANGED <<ptrVars, simVars, histVars, sizeVars, passVars>>
       ELSE /\ WithinBounds(dt)
            /\ RenderBody(dt, Cur)
            /\ UNCHANGED <<kind, options, status, allocated, released,
                           listeners, disposed, disposeCalls>>
            /\ UNCHANGED <<ptrVars, moveFromIdle, touched, clientSize>>

\* ---------------------------------------------------------- pointer events
\* setTimeout returns an id that no live timer and no stored id uses
FreshTimer ==
  CHOOSE n \in 1..(Cardinality(pendingTimers) + 2) :
    /\ n \notin pendingTimers /\ n # movementTimeoutId
    /\ \A k \in 1..(n - 1) : k \in pendingTimers \/ k = movementTimeoutId

\* clearTimeout(id): a no-op for null and for an id that already fired
ClearTimeout(timers, id) == timers \ {id}

\* fluid onMove: if (movementTimeoutId !== null) clearTimeout(movementTimeoutId)
\* before the new setTimeout
MoveKeepsTimer(timers, id) == timers
MoveTimers(timers, id) == ClearTimeout(timers, id)

\* fluid onMove: if (!isMoving) prevMouse.set(x, y); else prevMouse.copy(mouse)
FluidPrevStale(moving, p, m) == IF m = Sentinel("fluid") THEN p ELSE m
FluidPrevTrail(moving, p, m) == m
FluidPrev(moving, p, m) == IF ~moving THEN p ELSE m

\* realistic water onMove: if (mouse.z > 1.0) prevMouse.set(mouse.x, mouse.y);
\* else prevMouse.set(x, y)
WaterPrevCollapse(moving, p, m) == p
WaterPrev(moving, p, m) == IF moving THEN m ELSE p

\* ripple onMove: uPulseTime = 0.0; uPulseAmp = 1.0, whatever the pulse was
\* ("removed pulse lock - allow immediate restart")
PulseLocked(amp, time) ==
  IF amp > 0 THEN [amp |-> amp, time |-> time] ELSE [amp |-> One, time |-> 0]
PulseRestart(amp, time) == [amp |-> One, time |-> 0]

\* onMove(e) of the effect, the event being at x on the row's centre line
OnMove(x) ==
  LET p == <<x, RowY>>
  IN  /\ mouse' = p
      /\ lastCall' = <<"onMove", x>>
      /\ CASE kind = "ripple" ->
                /\ uPulseTime' = PulseRestart(uPulseAmp, uPulseTime).time
                /\ uPulseAmp' = PulseRestart(uPulseAmp, uPulseTime).amp
                /\ UNCHANGED <<prevMouse, isMoving, movementTimeoutId, pendingTimers>>
           [] kind = "fluid" ->
                /\ prevMouse' = FluidPrev(isMoving, p, mouse)
                /\ isMoving' = TRUE
                /\ movementTimeoutId' = FreshTimer
                /\ pendingTimers' =
                     MoveTimers(pendingTimers, movementTimeoutId) \cup {FreshTimer}
                /\ UNCHANGED <<uPulseTime, uPulseAmp>>
           [] OTHER ->
                /\ prevMouse' = WaterPrev(isMoving, p, mouse)
                /\ isMoving' = TRUE
                /\ UNCHANGED <<movementTimeoutId, pendingTimers, uPulseTime, uPulseAmp>>
      /\ moveFromIdle' = ~isMoving
      /\ framesSinceMove' = 0
      /\ touched' = TRUE
      /\ UNCHANGED <<hostVars, uTime, frame, bufA, bufB, ping, output, blend>>
      /\ UNCHANGED <<passSeq, rafSeq, lastSteps, lastReadPos, injected>>
      /\ UNCHANGED <<sizeVars, passVars, envVars>>

\* fluid onLeave: if (movementTimeoutId !== null) clearTimeout(movementTimeoutId)
LeaveKeepsTimer(timers, id) == timers
LeaveTimers(timers, id) == ClearTimeout(timers, id)

\* ripple onLeave: uniforms.uPulseAmp.value = 0.0
LeaveAmpKeeps(amp) == amp
LeaveAmp(amp) == 0

\* onLeave() of the effect
OnLeave ==
  /\ mouse' = Sentinel(kind)
  /\ lastCall' = <<"onLeave", 0>>
  /\ CASE kind = "ripple" ->
            /\ uPulseAmp' = LeaveAmp(uPulseAmp)
            /\ UNCHANGED <<prevMouse, isMoving, movementTimeoutId, pendingTimers>>
       [] kind = "fluid" ->
            /\ isMoving' = FALSE
            /\ prevMouse' = Sentinel(kind)
            /\ pendingTimers' = LeaveTimers(pendingTimers, movementTimeoutId)
            /\ movementTimeoutId' = NULL
            /\ UNCHANGED uPulseAmp
       [] OTHER ->
            /\ isMoving' = FALSE
            /\ UNCHANGED <<prevMouse, movementTimeoutId, pendingTimers, uPulseAmp>>
  /\ touched' = TRUE
  /\ UNCHANGED <<hostVars, uPulseTime, uTime, frame, bufA, bufB, ping, output, blend>>
  /\ UNCHANGED <<passSeq, rafSeq, lastSteps, lastReadPos, moveFromIdle, injected,
                 framesSinceMove>>
  /\ UNCHANGED <<sizeVars, passVars, envVars>>

\* mousemove with the pointer over the canvas (a pointer that was away has
\* come over it: no effect listens for mouseenter)
MouseMove(x) ==
  /\ status = "running"
  /\ "mousemove" \in listeners
  /\ OnMove(x)
  /\ pointerOver' = TRUE

\* mouseleave: the pointer goes off the canvas
MouseLeave ==
  /\ status = "running" /\ pointerOver
  /\ "mouseleave" \in listeners
  /\ OnLeave
  /\ pointerOver' = FALSE

\* a mousemove that was queued before the pointer left and is delivered
\* after the mouseleave: the pointer stays off the canvas
StaleMove(x) ==
  /\ status = "running" /\ ~pointerOver /\ touched
  /\ "mousemove" \in listeners
  /\ OnMove(x)
  /\ pointerOver' = FALSE

\* stopMovement(): the tracker (position, previous position, active) it
\* leaves behind
stopMovementResets(m, pm) == [m |-> Sentinel("fluid"), pm |-> Sentinel("fluid"),
                              moving |-> FALSE]
stopMovement(m, pm) == [m |-> m, pm |-> pm, moving |-> FALSE]

\* the host fires an armed timer: stopMovement()
TimerFire ==
  /\ \E id \in pendingTimers : pendingTimers' = pendingTimers \ {id}
  /\ LET t == stopMovement(mouse, prevMouse)
     IN  mouse' = t.m /\ prevMouse' = t.pm /\ isMoving' = t.moving
  /\ lastCall' = <<"stopMovement", 0>>
  /\ UNCHANGED <<hostVars, simVars, histVars, sizeVars, passVars, envVars>>
  /\ UNCHANGED <<movementTimeoutId, pointerOver>>

\* ----------------------------------------------------------------- dispose
\* timers left armed by dispose(): the fluid effect clears movementTimeoutId
DisposeKeepsTimer(k, timers, id) == timers
DisposeTimers(k, timers, id) ==
  IF k = "fluid" THEN ClearTimeout(timers, id) ELSE timers

\* one call of the function the creation function returned
Dispose ==
  /\ status = "running"
  /\ disposeCalls < MaxDispose
  /\ disposed' = TRUE
  /\ disposeCalls' = disposeCalls + 1
  /\ lastCall' = <<"dispose", 0>>
  /\ released' = [r \in AllResources |->
                    IF r \in DisposeList(kind, options)
                      THEN released[r] + 1 ELSE released[r]]
  \* cancelAnimationFrame(raf): ripple and glitch only
  /\ rafPending' = (IF kind \in {"ripple", "glitch"} THEN FALSE ELSE rafPending)
  \* removeEventListener: ripple, realistic water and fluid
  /\ listeners' = (IF kind = "glitch" THEN listeners ELSE {})
  \* clearTimeout(movementTimeoutId): fluid only
  /\ pendingTimers' = DisposeTimers(kind, pendingTimers, movementTimeoutId)
  /\ UNCHANGED <<kind, options, status, allocated>>
  /\ UNCHANGED <<mouse, prevMouse, isMoving, movementTimeoutId, pointerOver>>
  /\ UNCHANGED <<simVars, histVars, sizeVars, passVars, envVars>>

\* the host lays the canvas out at another display size
Resize(sz) ==
  /\ status = "running"
  /\ sz # clientSize
  /\ clientSize' = sz
  /\ lastCall' = <<"layout", 0>>
  /\ UNCHANGED <<hostVars, ptrVars, simVars, histVars>>
  /\ UNCHANGED <<canvasSize, sizeA, sizeB, resized, readZero>>
  /\ UNCHANGED <<passVars, envVars>>

\* ---------------------------------------------------------------- registry
\* The page: an image with class kxxxr-ripple ("img"), a video with class
\* kxxxr-glitch ("video"), and an image without a class that the simple API
\* is pointed at ("pic").  An effect instance is an id; the registry keeps
\* the dispose function of an instance, which the model names by that id.
Elems == {"img", "video", "pic"}
Absent == 0

Registry ==
  [inDom |-> inDom, video |-> videoState, nMeta |-> nMeta, nData |-> nData,
   created |-> created, disposed |-> disposedInst, active |-> activeEffects,
   gui |-> guiDispose, disposes |-> disposes]

\* the common part of the init functions and the simple API on an image
\* element: createCanvas replaces the element, the effect is created and
\* registered, and with debug a panel is built around `recreate`
initImage(r, el, dbg) ==
  LET id == r.created + 1
  IN  [r EXCEPT !.inDom = @ \ {el}, !.created = id, !.active[el] = id,
                !.gui[el] = IF dbg THEN id ELSE @]

\* initRippleEffect for each element document.querySelectorAll finds
initRippleEffect(r, dbg) ==
  IF "img" \in r.inDom THEN initImage(r, "img", dbg) ELSE r

\* initVideo: a canvas is inserted before the video, which stays in the
\* document; the effect is created and registered under the video
initVideo(r) ==
  [r EXCEPT !.created = @ + 1, !.active["video"] = r.created + 1]

\* initGlitchEffect on the video element
initGlitchEffect(r) ==
  IF "video" \notin r.inDom THEN r
  ELSE IF r.video = "data" THEN initVideo(r)
  ELSE [r EXCEPT !.nMeta = @ + 1, !.nData = @ + 1]

initEffects(r, dbg) == initGlitchEffect(initRippleEffect(r, dbg))

\* cleanupKxxxrEffects: every stored dispose is called, then the map cleared
cleanupEffects(r) ==
  [r EXCEPT !.disposed = @ \cup ({ r.active[e] : e \in Elems } \ {Absent}),
            !.active = [e \in Elems |-> Absent]]

\* recreate() of the debug panel of element el
recreate(r, el) ==
  [r EXCEPT !.disposed = @ \cup {r.gui[el]}, !.created = @ + 1,
            !.gui[el] = r.created + 1, !.active[el] = r.created + 1]

RECURSIVE Times(_, _)
\* n `once` listeners that each run initVideo
Times(n, r) == IF n = 0 THEN r ELSE Times(n - 1, initVideo(r))

SetRegistry(r) ==
  /\ r.created <= MaxInst /\ r.nMeta <= MaxInst
  /\ inDom' = r.inDom /\ videoState' = r.video
  /\ nMeta' = r.nMeta /\ nData' = r.nData
  /\ created' = r.created /\ disposedInst' = r.disposed
  /\ activeEffects' = r.active /\ guiDispose' = r.gui
  /\ disposes' = r.disposes
  /\ UNCHANGED <<effectVars, debugOn, cfgVars, imageState, textureSizes>>

\* kxxxr.init()
CallInit ==
  /\ SetRegistry(initEffects(Registry, debugOn))
  /\ quiet' = FALSE

\* kxxxr.cleanup()
CallCleanup ==
  /\ SetRegistry(cleanupEffects(Registry))
  /\ quiet' = TRUE

\* kxxxr.reinit()
CallReinit ==
  /\ SetRegistry(initEffects(cleanupEffects(Registry), debugOn))
  /\ quiet' = FALSE

\* kxxxr.rippleEffect("#pic", options): document.querySelectorAll finds the
\* element while it is in the document
CallRippleEffect ==
  /\ LET r == Registry
         n == IF "pic" \in r.inDom THEN initImage(r, "pic", debugOn) ELSE r
     IN  SetRegistry([n EXCEPT !.disposes =
                        IF "pic" \in r.inDom THEN {r.created + 1} ELSE {}])
  /\ quiet' = FALSE

\* () => disposes.forEach((dispose) => dispose()): the array holds the
\* dispose functions that were pushed when the simple API ran
returnedDispose(r) == [r EXCEPT !.disposed = @ \cup r.disposes]

\* the function the simple API returned is called
CallReturnedDispose ==
  /\ disposes # {}
  /\ SetRegistry(returnedDispose(Registry))
  /\ UNCHANGED quiet

\* a control of the debug panel of element el changes: onChange(recreate)
DebugChange(el) ==
  /\ guiDispose[el] # Absent
  /\ SetRegistry(recreate(Registry, el))
  /\ UNCHANGED quiet

\* the video fires loadedmetadata: every pending listener runs initVideo
VideoLoadedMetadata ==
  /\ videoState = "nothing"
  /\ SetRegistry([Times(nMeta, Registry) EXCEPT !.video = "metadata", !.nMeta = 0])
  /\ UNCHANGED quiet

\* the video fires loadeddata (readyState >= 2): every pending listener runs
\* `if (!activeEffects.has(element)) initVideo()`
VideoLoadedData ==
  /\ videoState = "metadata"
  /\ LET r == Registry
         n == IF nData > 0 /\ r.active["video"] = Absent THEN initVideo(r) ELSE r
     IN  SetRegistry([n EXCEPT !.video = "data", !.nData = 0])
  /\ UNCHANGED quiet

\* the registry of a page on which no init function has run
RegistryInit(dbg) ==
  /\ inDom = Elems /\ videoState = "nothing"
  /\ nMeta = 0 /\ nData = 0
  /\ created = 0 /\ disposedInst = {}
  /\ activeEffects = [e \in Elems |-> Absent]
  /\ guiDispose = [e \in Elems |-> Absent]
  /\ disposes = {}
  /\ debugOn = dbg
  /\ quiet = FALSE

\* ------------------------------------------------------------------ options
\* The numeric options of the four creation functions, in thousandths.
OptionNames(k) ==
  CASE k = "ripple"    -> {"strength", "radius", "pulseSpeed", "decay", "frequency"}
    [] k = "realistic" -> {"simulationSpeed", "effectRadius", "headStrength",
                           "tailStrength", "tailWidth"}
    [] k = "fluid"     -> {"speed", "decay", "lineWidth", "lineIntensity",
                           "threshold", "edgeWidth"}
    [] OTHER           -> {"colorDistortionAmount", "blockSize",
                           "horizontalStripeSize", "horrorColorGradingAmount"}

\* the defaults of the destructuring patterns of waterHoverEffect,
\* realisticWaterHoverEffect, fluidSimulationEffect and glitchEffect
\* (tailWidth defaults to the effectRadius of the call: see Destructure)
CodeDefaults(k) ==
  CASE k = "ripple"    -> [strength |-> 80, radius |-> 250, pulseSpeed |-> 1200,
                           decay |-> 1800, frequency |-> 20000]
    [] k = "realistic" -> [simulationSpeed |-> 1000, effectRadius |-> 20000,
                           headStrength |-> 1000, tailStrength |-> 600,
                           tailWidth |-> 20000]
    [] k = "fluid"     -> [speed |-> 1000, decay |-> 970, lineWidth |-> 50,
                           lineIntensity |-> 300, threshold |-> 20, edgeWidth |-> 4]
    [] OTHER           -> [colorDistortionAmount |-> 0, blockSize |-> 15000,
                           horizontalStripeSize |-> 30000,
                           horrorColorGradingAmount |-> 1000]

\* DEFAULT_CONFIGS[effectType], the defaults of the README's Parameters
DEFAULT_CONFIGS(k) ==
  CASE k = "ripple"    -> [strength |-> 80, radius |-> 300, pulseSpeed |-> 2000,
                           decay |-> 2500, frequency |-> 20000]
    [] k = "realistic" -> [simulationSpeed |-> 1400, effectRadius |-> 25000,
                           headStrength |-> 700, tailStrength |-> 600,
                           tailWidth |-> 20000]
    [] k = "fluid"     -> [speed |-> 1000, decay |-> 970, lineWidth |-> 50,
                           lineIntensity |-> 300, threshold |-> 20, edgeWidth |-> 4]
    [] OTHER           -> [colorDistortionAmount |-> 1000, blockSize |-> 15000,
                           horizontalStripeSize |-> 30000,
                           horrorColorGradingAmount |-> 20]

\* an options object without a numeric option
NoOptions == [n \in {} |-> 0]

\* { ...a, ...b }
Spread(a, b) ==
  [n \in DOMAIN a \cup DOMAIN b |-> IF n \in DOMAIN b THEN b[n] ELSE a[n]]

\* const { strength = 0.08, ... } = options
Destructure(k, o) ==
  LET d == CodeDefaults(k)
      v == [n \in DOMAIN d |-> IF n \in DOMAIN o THEN o[n] ELSE d[n]]
  IN  IF k = "realistic" /\ "tailWidth" \notin DOMAIN o
        THEN [v EXCEPT !.tailWidth = v.effectRadius]
        ELSE v

\* getConfigFromAttributes(element, effectType) for an element carrying the
\* data attributes attrs
getConfigFromAttributes(k, attrs) ==
  LET c == DEFAULT_CONFIGS(k)
  IN  [n \in DOMAIN c |-> IF n \in DOMAIN attrs THEN attrs[n] ELSE c[n]]

\* values a caller writes for an option
GivenValues == {500, 2000}
\* the options objects / attribute sets of a caller
GivenSets(k) ==
  UNION { [S -> GivenValues] : S \in SUBSET OptionNames(k) }

InitConfig(g) == given = g /\ uniforms = NoOptions /\ route = "none"

\* the creation function called directly: waterHoverEffect(canvas,
\* { imageUrl, ...given })
CreateDirect ==
  /\ route = "none"
  /\ route' = "direct"
  /\ uniforms' = Destructure(kind, given)
  /\ UNCHANGED <<effectVars, regVars, given, imageState, textureSizes>>

\* auto-init: initRippleEffect and its siblings merge the data attributes
\* into DEFAULT_CONFIGS and pass the result to the creation function
CreateAuto ==
  /\ route = "none"
  /\ route' = "auto"
  /\ uniforms' = Destructure(kind, getConfigFromAttributes(kind, given))
  /\ UNCHANGED <<effectVars, regVars, given, imageState, textureSizes>>

\* the simple API: kxxxr.rippleEffect(selector, given) and its siblings pass
\* { ...DEFAULT_CONFIGS[type], ...given }
CreateSimple ==
  /\ route = "none"
  /\ route' = "simple"
  /\ uniforms' = Destructure(kind, Spread(DEFAULT_CONFIGS(kind), given))
  /\ UNCHANGED <<effectVars, regVars, given, imageState, textureSizes>>

\* ------------------------------------------------------------------- assets
\* natural sizes (texture.image.width, texture.image.height) of the images
ImageSizes == { <<1024, 1024>>, <<800, 600>> }

\* the image decodes: TextureLoader's onLoad marks the texture for upload and
\* runs the callback the effect gave to load()
ImageDecoded ==
  /\ status = "running" /\ imageState = "decoding"
  /\ imageState' = "decoded"
  /\ \E top \in ImageSizes : \E back \in ImageSizes :
       textureSizes' = OnLoad(kind, options, textureSizes, top, back)
  /\ UNCHANGED <<effectVars, regVars, cfgVars>>

\* the image fails to decode: the loader has no onError callback, and the
\* texture stays without an image
ImageBroken ==
  /\ status = "running" /\ imageState = "decoding"
  /\ imageState' = "broken"
  /\ UNCHANGED <<effectVars, regVars, cfgVars, textureSizes>>

\* ---------------------------------------------------------- specifications
\* options as the creation functions default them, in the model's units
Defaults ==
  [source |-> "image", backImage |-> FALSE, image |-> [i \in Pixels |-> 0],
   dpr |-> 1, speed |-> 1, speedFrac |-> 0, decay |-> 1,
   strength |-> 80, radius |-> 250, pulseSpeed |-> 300, frequency |-> 20 * One,
   lineWidth |-> 400, lineIntensity |-> 0, threshold |-> 2, edgeWidth |-> 4,
   simulationSpeed |-> One, effectRadius |-> 2, headStrength |-> 0,
   tailStrength |-> 0, tailWidth |-> 2]

Sources(k) == IF k = "glitch" THEN {"none", "image", "video"} ELSE {"none", "image"}

\* option objects of the lifecycle specification: every kind, with and
\* without a source; the two simulations run without injected energy
OptionSets(k) ==
  { [Defaults EXCEPT !.source = src,
                     !.image = IF k = "ripple" THEN img ELSE Defaults.image,
                     !.decay = IF k = "fluid" THEN 500
                               ELSE IF k = "ripple" THEN d ELSE 1,
                     !.speed = IF k = "fluid" THEN sp ELSE 1,
                     !.backImage = (k = "fluid" /\ sp = 2)] :
      src \in Sources(k), img \in Images, d \in 1..MaxDecay, sp \in {1, 2} }

\* the display size of the specifications that never lay the canvas out anew
FixedSize == <<200, 200>>

InitEffect(k, o, sz) ==
  /\ kind = k /\ options = o
  /\ clientSize = sz
  /\ canvasSize = <<300, 150>>
  /\ sizeA = NoSize /\ sizeB = NoSize
  /\ resized = FALSE /\ readZero = TRUE
  /\ status = "new"
  /\ allocated = {}
  /\ released = [r \in AllResources |-> 0]
  /\ listeners = {}
  /\ rafPending = FALSE /\ disposed = FALSE /\ disposeCalls = 0
  /\ mouse = Sentinel(k) /\ prevMouse = Sentinel(k) /\ isMoving = FALSE
  /\ movementTimeoutId = NULL /\ pendingTimers = {}
  /\ pointerOver = FALSE
  /\ uPulseAmp = 0 /\ uPulseTime = 0 /\ uTime = 0 /\ frame = 0
  /\ bufA = FreshBuf(k) /\ bufB = FreshBuf(k) /\ ping = "A"
  /\ output = [i \in Pixels |-> 0]
  /\ blend = [i \in Pixels |-> 0]
  /\ passSeq = 0 /\ rafSeq = 0 /\ lastSteps = 0
  /\ stepLog = <<>> /\ shown = "none" /\ drawnTo = "none"
  /\ refreshed = FALSE
  /\ textureSizes = NoHints
  /\ lastCall = <<"none", 0>>
  /\ lastReadPos = NoRead
  /\ moveFromIdle = FALSE /\ injected = FALSE
  /\ framesSinceMove = 0 /\ touched = FALSE

InitSized(k, o, sz) ==
  /\ RegistryInit(FALSE)
  /\ InitEffect(k, o, sz)
  /\ InitConfig(NoOptions)
  /\ imageState = "decoded"

InitState(k, o) == InitSized(k, o, FixedSize)

Init == \E k \in Kinds : \E o \in OptionSets(k) : InitState(k, o)

Next ==
  \/ Create
  \/ \E dt \in Dts : Frame(dt)
  \/ \E x \in PtrXs : MouseMove(x)
  \/ MouseLeave
  \/ TimerFire
  \/ Dispose

Spec == Init /\ [][Next]_vars

\* simulations with injected energy: fluid trail and realistic water, created
\* with a source and never disposed
SimOptionSets(k) ==
  IF k = "fluid"
    THEN { [Defaults EXCEPT !.decay = 500, !.lineIntensity = 4, !.speed = sp] :
             sp \in {1, 2} }
    ELSE { [Defaults EXCEPT !.headStrength = 700, !.tailStrength = 600] }

InitSim == \E k \in {"fluid", "realistic"} : \E o \in SimOptionSets(k) : InitState(k, o)

NextSim ==
  \/ Create
  \/ \E dt \in Dts : Frame(dt)
  \/ \E x \in PtrXs : MouseMove(x)
  \/ MouseLeave
  \/ TimerFire

SpecSim == InitSim /\ [][NextSim]_vars

\* the ripple alone, also with decay 0 (an amplitude that never decays)
InitRipple ==
  \E img \in Images : \E d \in 0..MaxDecay :
    InitState("ripple", [Defaults EXCEPT !.image = img, !.decay = d])

NextRipple ==
  \/ Create
  \/ \E dt \in Dts : Frame(dt)
  \/ \E x \in PtrXs : MouseMove(x)
  \/ MouseLeave

SpecRipple == InitRipple /\ [][NextRipple]_vars

\* the fluid effect at speeds 0, 0.5, 1, 1.5, 2 and 2.5, with a trail that
\* stays empty
InitSteps ==
  \E sp \in 0..2 : \E fr \in {0, One \div 2} :
    InitState("fluid", [Defaults EXCEPT !.speed = sp, !.speedFrac = fr,
                                        !.decay = 500])

SpecSteps == InitSteps /\ [][NextSim]_vars

\* the same under the host's timer scheduling: a timer that stays armed fires
SpecIdle == InitSim /\ [][NextSim]_vars /\ WF_vars(TimerFire)

\* the same, with mousemove events delivered after the mouseleave
NextStale ==
  \/ NextSim
  \/ \E x \in {1, 2} : StaleMove(x)

SpecStale == InitSim /\ [][NextStale]_vars

\* the fluid compositor: trail values at, below and above the threshold, with
\* and without a soft edge, at device pixel ratios 1 and 2 (decay 0: the trail
\* of a frame is what its pass injects)
BlendOptionSets ==
  { [Defaults EXCEPT !.decay = 0, !.lineIntensity = c[1], !.threshold = 20,
                     !.edgeWidth = c[2], !.dpr = c[3], !.backImage = TRUE,
                     !.image = [i \in Pixels |-> ((i - 1) * One) \div W]] :
      c \in {<<22, 4, 1>>, <<22, 4, 2>>, <<20, 0, 1>>} }

InitBlend == \E o \in BlendOptionSets : InitState("fluid", o)

SpecBlend == InitBlend /\ [][NextSim]_vars

\* every kind at device pixel ratios 1 and 2, laid out at every display size
\* and laid out anew while running; the fluid trail is given energy by the
\* pointer moving between the first and the last pixel, the other kinds run
\* without pointer events
SizeOptionSets(k) ==
  { [Defaults EXCEPT !.dpr = r,
                     !.decay = IF k = "fluid" THEN 500 ELSE 1,
                     !.lineIntensity = IF k = "fluid" THEN 2 ELSE 0] :
      r \in {1, 2} }

InitSize ==
  \E k \in Kinds : \E o \in SizeOptionSets(k) : \E sz \in Sizes : InitSized(k, o, sz)

NextSize ==
  \/ Create
  \/ \E dt \in Dts : Frame(dt)
  \/ \E x \in {1, 2 * W - 1} : kind = "fluid" /\ MouseMove(x)
  \/ kind = "fluid" /\ MouseLeave
  \/ \E sz \in Sizes : Resize(sz)

SpecSize == InitSize /\ [][NextSize]_vars

\* the registry: auto-init, the simple API, the debug panels and the load
\* events of the video, in every order; no effect is driven further
InitRegistry ==
  /\ InitEffect("ripple", Defaults, FixedSize)
  /\ InitConfig(NoOptions)
  /\ imageState = "decoded"
  /\ \E dbg \in BOOLEAN : RegistryInit(dbg)

NextRegistry ==
  \/ CallInit
  \/ CallCleanup
  \/ CallReinit
  \/ CallRippleEffect
  \/ CallReturnedDispose
  \/ \E el \in Elems : DebugChange(el)
  \/ VideoLoadedMetadata
  \/ VideoLoadedData

SpecRegistry == InitRegistry /\ [][NextRegistry]_vars

\* the defaults: every kind, created directly, by auto-init and through the
\* simple API, with every set of options given by the caller
InitDefaults ==
  /\ \E k \in Kinds : /\ InitEffect(k, Defaults, FixedSize)
                       /\ \E g \in GivenSets(k) : InitConfig(g)
  /\ RegistryInit(FALSE)
  /\ imageState = "decoded"

NextDefaults ==
  \/ CreateDirect
  \/ CreateAuto
  \/ CreateSimple

SpecDefaults == InitDefaults /\ [][NextDefaults]_vars

\* the lifecycle of every kind while the source image is still decoding: it
\* decodes at any time, or fails to, or stays in flight
InitLoad ==
  /\ \E k \in Kinds : \E o \in OptionSets(k) : InitEffect(k, o, FixedSize)
  /\ RegistryInit(FALSE)
  /\ InitConfig(NoOptions)
  /\ imageState = "decoding"

NextLoad ==
  \/ Next
  \/ ImageDecoded
  \/ ImageBroken

SpecLoad == InitLoad /\ [][NextLoad]_vars

\* ================================================================== properties
Running == status = "running"
\* a render() body ran in this step
Rendered == passSeq' # passSeq
\* the trail / pressure target a simulation pass will read next
PingBuf == IF ping = "A" THEN bufA ELSE bufB

\* C1: once dispose() has been called, no render() runs a simulation or
\* display pass and none requests another animation frame, also when a
\* callback was scheduled at the moment of the call (all four effects).
C1_NoFrameAfterDispose ==
  [][disposed => /\ passSeq' = passSeq
                 /\ rafSeq' = rafSeq
                 /\ ~(~rafPending /\ rafPending')
                 /\ UNCHANGED <<bufA, bufB, ping, output, uTime, frame>>]_vars

\* the callback that was scheduled when the fluid effect was disposed has run
C1_Witness == kind = "fluid" /\ disposed /\ ~rafPending

\* C2: over any number of dispose() calls each owned GPU object is released
\* exactly once in total.
C2_ReleasedOnce ==
  disposeCalls >= 1 =>
    \A r \in AllResources :
      released[r] = (IF r \in Resources(kind, options) THEN 1 ELSE 0)

\* C3: after dispose() of a ripple, realistic-water or fluid effect no pointer
\* handler is registered, no idle timer is pending, and the pointer state is
\* never changed again.
C3_NoHandlersAfterDispose ==
  /\ [](disposed /\ kind \in {"ripple", "realistic", "fluid"}
          => listeners = {} /\ pendingTimers = {})
  /\ [][disposed => UNCHANGED <<mouse, prevMouse, isMoving, movementTimeoutId,
                                uPulseAmp, uPulseTime>>]_vars

\* the fluid effect was disposed while its idle timer was armed
C3_Witness ==
  kind = "fluid" /\ disposed /\ isMoving /\ movementTimeoutId # NULL

\* C4: a creation call without a source throws before any GPU object is
\* constructed, any listener is registered or any frame is scheduled.
C4_NoSourceThrowsFirst ==
  (options.source = "none" /\ status # "new") =>
    /\ status = "threw"
    /\ allocated = {} /\ listeners = {}
    /\ ~rafPending /\ rafSeq = 0 /\ passSeq = 0

C4_Witness == status = "threw" /\ kind = "glitch"

\* C5: the previousPosition a simulation pass reads is the position the pass
\* before it read, except after a move that found the tracker inactive, where
\* it equals the position (fluid and realistic water; passes that read an
\* active tracker, the pass before having read an active tracker too).
C5_Continuity ==
  [][(HasSimulation(kind) /\ Running /\ Rendered /\ isMoving
        /\ lastReadPos # NoRead)
       => IF moveFromIdle THEN prevMouse = mouse
                          ELSE prevMouse = lastReadPos]_vars

\* C6: once the pointer has left, the tracker is inactive as soon as no idle
\* timer is pending, and no simulation pass adds energy until the pointer
\* comes back, also when a move event is delivered after the leave event.
C6_NoEnergyAfterLeave ==
  [][(HasSimulation(kind) /\ Running /\ touched /\ ~pointerOver)
       => /\ (pendingTimers = {} => ~isMoving)
          /\ (Rendered => ~injected')]_vars

\* C7: ripple frames never increase the amplitude, and the amplitude is
\* exactly 0 once StopFrames(decay) frames were rendered since the last move,
\* for every decay > 0 and every sequence of clock deltas.
StopFrames(decay) ==
  CHOOSE n \in 1..(Len(ExpTable) + 1) :
    /\ ExpNeg(decay * n) < Epsilon
    /\ \A k \in 1..(n - 1) : ExpNeg(decay * k) >= Epsilon

C7_Decay ==
  /\ [][(kind = "ripple" /\ Running /\ Rendered) => uPulseAmp' <= uPulseAmp]_vars
  /\ [](kind = "ripple" /\ Running /\ options.decay > 0
          /\ framesSinceMove >= StopFrames(options.decay)
        => uPulseAmp = 0)

\* a pulse was started and has died out over the slowest clock
C7_Witness ==
  /\ kind = "ripple" /\ touched /\ mouse # Sentinel(kind)
  /\ framesSinceMove >= StopFrames(options.decay)
  /\ framesSinceMove = uPulseTime
  /\ uPulseAmp = 0

\* C8 as stated: with no pointer event the amplitude is 0 at every frame and
\* every output pixel equals the source pixel.
C8_IdentityOutput ==
  (kind = "ripple" /\ Running /\ ~touched) =>
    /\ uPulseAmp = 0
    /\ \A i \in Pixels : output[i] = options.image[i]

\* C8 amended: with no pointer event the amplitude is 0 at every frame, the
\* displacement is 0 at every pixel, and every output pixel is the source
\* pixel at the same place after the shader's fixed grading pow(c, 0.5) * 1.1.
C8_UndistortedOutput ==
  (kind = "ripple" /\ Running /\ ~touched) =>
    /\ uPulseAmp = 0
    /\ \A i \in Pixels :
         /\ RippleDisp(i, mouse, uPulseTime, uPulseAmp, options) = 0
         /\ output[i] = RippleGrade(options.image[i])

\* untouched for the whole explored clock range, on a picture the grading changes
C8_Witness ==
  /\ kind = "ripple" /\ Running /\ ~touched /\ uTime = MaxTime
  /\ \E i \in Pixels : output[i] # options.image[i]

\* C9: realistic water without any pointer event: every cell of both
\* simulation targets is exactly 0 after every pass.
C9_StaysZero ==
  (kind = "realistic" /\ Running /\ ~touched) =>
    bufA = ZeroBuf /\ bufB = ZeroBuf

C9_Witness ==
  kind = "realistic" /\ ~touched /\ frame = MaxFrame /\ PingBuf = ZeroBuf

\* C10 as stated: the fluid trail stays within [0, lineIntensity * steps per
\* frame] at every pixel.
C10_FrameBound ==
  (kind = "fluid" /\ Running) =>
    \A i \in Pixels :
      /\ 0 <= bufA[i] /\ bufA[i] <= options.lineIntensity * FluidSteps(options)
      /\ 0 <= bufB[i] /\ bufB[i] <= options.lineIntensity * FluidSteps(options)

\* C10 amended: the trail is >= 0 and never exceeds lineIntensity / (1 - decay),
\* the limit of adding lineIntensity in every pass (0 <= decay < 1).
C10_GeometricBound ==
  (kind = "fluid" /\ Running) =>
    \A i \in Pixels :
      /\ 0 <= bufA[i] /\ bufA[i] * (One - options.decay) <= options.lineIntensity * One
      /\ 0 <= bufB[i] /\ bufB[i] * (One - options.decay) <= options.lineIntensity * One

\* a pixel holds more than one frame can add
C10_Witness ==
  kind = "fluid" /\ Running
  /\ \E i \in Pixels : PingBuf[i] > options.lineIntensity * FluidSteps(options)

\* C11: in the fluid compositor the blend factor of every pixel lies in [0,1]
\* for every trail value, threshold and edgeWidth >= 0, and with edgeWidth = 0
\* it is the hard step: 0 below the threshold, 1 at or above it.
C11_BlendInRange ==
  (kind = "fluid" /\ Running) =>
    \A i \in Pixels :
      /\ blend[i] >= 0 /\ blend[i] <= One
      /\ options.edgeWidth = 0 =>
            blend[i] = (IF PingBuf[i] < options.threshold THEN 0 ELSE One)

\* C12: with threshold 0.02 and edgeWidth 0.004, a pixel whose trail value is
\* exactly 0.022 gets the blend factor smoothstep(0.02, 0.024, 0.022), at
\* every device pixel ratio.
C12_BlendAtScenario ==
  (kind = "fluid" /\ Running /\ options.threshold = 20 /\ options.edgeWidth = 4) =>
    \A i \in Pixels : PingBuf[i] = 22 => blend[i] = SmoothStep(20, 24, 22)

\* C13: in the fluid and realistic-water effects, a frame that changes the
\* surface size leaves both simulation targets at the new resolution, and
\* the first simulation pass of that frame reads a target whose cells are
\* all 0.
C13_ResizeResets ==
  [][(HasSimulation(kind) /\ Running /\ Rendered /\ resized') =>
       /\ sizeA' = canvasSize' /\ sizeB' = canvasSize'
       /\ readZero']_vars

\* C14: for every effect, each frame rendered while running leaves the
\* render surface at the display size of the canvas (in CSS or in device
\* pixels).
C14_SurfaceFollowsDisplay ==
  [][(Running /\ Rendered) =>
       canvasSize' \in {clientSize, Scale(clientSize, options.dpr)}]_vars

\* C20: in the fluid and realistic-water effects, from the first frame on,
\* both ping-pong targets have the same dimensions, and these are
\* canvas.width x canvas.height, at every device pixel ratio.
C20_TargetsMatchSurface ==
  (HasSimulation(kind) /\ Running) =>
    sizeA = sizeB /\ sizeA = canvasSize

\* C15: once cleanupKxxxrEffects() has returned, and until init, reinit or
\* an effect API is called again, activeEffects is empty and every effect
\* instance that exists has been disposed, whatever video load events and
\* debug re-creations happen in between.
C15_CleanupIsFinal ==
  quiet => /\ \A e \in Elems : activeEffects[e] = Absent
           /\ \A i \in 1..created : i \in disposedInst

\* C16: an effect created directly with no option but its source runs with
\* the values of DEFAULT_CONFIGS, the defaults auto-init uses and the README
\* documents
C16_DirectDefaults ==
  (route = "direct" /\ DOMAIN given = {}) =>
    \A n \in OptionNames(kind) : uniforms[n] = DEFAULT_CONFIGS(kind)[n]

\* C17: while the source image has not decoded (still in flight, or failed
\* for good) a running effect that is not disposed keeps an animation frame
\* scheduled, and every animation-frame callback executes its passes and
\* schedules the next one
C17_LoopIgnoresTexture ==
  /\ []((Running /\ ~disposed /\ imageState # "decoded") => rafPending)
  /\ [][(Running /\ ~disposed /\ ~disposed' /\ imageState # "decoded"
          /\ (rafSeq' # rafSeq \/ rafPending' # rafPending \/ Rendered))
        => (Rendered /\ rafSeq' # rafSeq /\ rafPending')]_vars

\* a ripple whose image failed to decode has drawn an animation frame from
\* the imageless texture, and the next frame is scheduled
C17_Witness ==
  /\ kind = "ripple" /\ Running /\ ~disposed /\ imageState = "broken"
  /\ uTime >= 2 /\ rafPending
  /\ \E i \in Pixels : options.image[i] # 0
  /\ \A i \in Pixels : output[i] = RippleGrade(0)

\* the cells of the target named t
Target(t) == IF t = "A" THEN bufA ELSE bufB

\* C18: every simulation pass of a render() reads one target of the pair
\* {A, B} and writes the other one, each pass reads what the pass before it
\* wrote and writes what that one read, and so does the first pass of a
\* render() with respect to the last pass of the render() before it
C18_PingPong ==
  /\ []((HasSimulation(kind) /\ Running) =>
         /\ Len(stepLog) = lastSteps /\ Len(stepLog) >= 1
         /\ \A j \in 1..Len(stepLog) :
              /\ stepLog[j][1] \in {"A", "B"} /\ stepLog[j][2] \in {"A", "B"}
              /\ stepLog[j][1] # stepLog[j][2]
              /\ j > 1 => stepLog[j] = <<stepLog[j - 1][2], stepLog[j - 1][1]>>)
  /\ [][(HasSimulation(kind) /\ Running /\ Rendered) =>
          stepLog'[1] = <<stepLog[Len(stepLog)][2], stepLog[Len(stepLog)][1]>>]_vars

\* a fluid frame of two passes: the second read B and wrote A, with energy
\* injected by the pointer
C18_Witness ==
  /\ kind = "fluid" /\ Running /\ injected
  /\ Len(stepLog) = 2 /\ stepLog[2] = <<"B", "A">>

\* C19: the display pass of a render() samples the target its last simulation
\* pass wrote and draws to the canvas, never to A or B; the colour on the
\* canvas is computed from that target's cells; and the target the next
\* render() reads first is the one that was written last
C19_DisplayLatest ==
  /\ []((HasSimulation(kind) /\ Running) =>
         /\ shown = stepLog[Len(stepLog)][2]
         /\ drawnTo \notin {"A", "B"}
         /\ ping = stepLog[Len(stepLog)][2]
         /\ kind = "realistic" => output = WaterOutput(Target(shown), Bound(options))
         /\ kind = "fluid" => /\ blend \in FluidBlends(Target(shown), options)
                              /\ output = FluidOutput(blend, Bound(options)))
  /\ [][(HasSimulation(kind) /\ Running /\ Rendered) => stepLog'[1][1] = ping]_vars

\* a fluid frame of two passes whose last pass left in A a trail that differs
\* from the one in B, and the display pass sampled A
C19_Witness ==
  /\ kind = "fluid" /\ Running /\ Len(stepLog) = 2
  /\ shown = "A" /\ stepLog[2][2] = "A"
  /\ \E i \in Pixels : bufA[i] # 0 /\ bufA[i] # bufB[i]

\* this step is a call of the named handler or callback of the effect
Called(name) == lastCall'[1] = name /\ effectVars' # effectVars

\* C21: in the fluid and realistic-water trackers a move event that arrives
\* while the tracker is inactive leaves the previous position equal to the
\* position of the event, the position equal to it too, and the tracker active
C21_MoveFromInactive ==
  [][(HasSimulation(kind) /\ Running /\ ~isMoving /\ Called("onMove")) =>
       /\ isMoving'
       /\ mouse' = <<lastCall'[2], RowY>>
       /\ prevMouse' = mouse']_vars

\* the fluid tracker just took its first move after an idle timeout (the
\* second timer id is in use and the move found the tracker inactive)
C21_Witness ==
  /\ kind = "fluid" /\ Running /\ lastCall[1] = "onMove" /\ moveFromIdle
  /\ movementTimeoutId = 2
  /\ isMoving /\ prevMouse = mouse /\ mouse = <<lastCall[2], RowY>>

\* C22: in the fluid and realistic-water trackers a move event that arrives
\* while the tracker is active (the latest tracker event was a move, with
\* no leave and no idle timeout since) leaves the previous position equal to
\* the position that move had set and the position equal to its own
C22_PreviousTrailsByOne ==
  [][(HasSimulation(kind) /\ Running /\ isMoving /\ Called("onMove")) =>
       /\ isMoving'
       /\ prevMouse' = mouse
       /\ mouse' = <<lastCall'[2], RowY>>]_vars

\* the realistic-water tracker took a second move at another position
C22_Witness ==
  /\ kind = "realistic" /\ Running /\ lastCall[1] = "onMove" /\ ~moveFromIdle
  /\ isMoving /\ prevMouse # mouse /\ mouse = <<lastCall[2], RowY>>
  /\ prevMouse # Sentinel(kind)

\* C23: when onLeave of the fluid effect has run, the tracker is inactive,
\* its position and previous position are the off-surface sentinel, and no
\* idle timer is pending
C23_FluidLeave ==
  (kind = "fluid" /\ Running /\ lastCall[1] = "onLeave") =>
    /\ ~isMoving
    /\ mouse = Sentinel(kind) /\ prevMouse = Sentinel(kind)
    /\ movementTimeoutId = NULL /\ pendingTimers = {}

\* the pointer left the fluid surface after a move had armed the idle timer
C23_Witness ==
  /\ kind = "fluid" /\ Running /\ lastCall[1] = "onLeave"
  /\ moveFromIdle /\ touched
  /\ mouse = Sentinel(kind) /\ pendingTimers = {}

\* C24: when onLeave of the realistic-water effect has run, the tracker is
\* inactive and its position and previous position are both the off-surface
\* sentinel
C24_WaterLeave ==
  (kind = "realistic" /\ Running /\ lastCall[1] = "onLeave") =>
    /\ ~isMoving
    /\ mouse = Sentinel(kind) /\ prevMouse = Sentinel(kind)

\* C25: while the fluid tracker is active the idle timer armed by the latest
\* move is pending, and when it fires it makes the tracker inactive and
\* changes nothing else: position, previous position, the stored timer id,
\* the trail and the surface stay as they were
C25_IdleTimerOnlyDeactivates ==
  /\ []((kind = "fluid" /\ Running /\ ~disposed /\ isMoving) =>
          pendingTimers = {movementTimeoutId})
  /\ [][(kind = "fluid" /\ Called("stopMovement")) =>
          /\ ~isMoving'
          /\ mouse' = mouse /\ prevMouse' = prevMouse
          /\ UNCHANGED <<movementTimeoutId, hostVars, simVars>>]_vars

\* the idle timer fired after two moves at different positions: the tracker
\* is inactive and both positions are still on the surface
C25_Witness ==
  /\ kind = "fluid" /\ Running /\ lastCall[1] = "stopMovement"
  /\ ~isMoving /\ pendingTimers = {}
  /\ mouse # Sentinel(kind) /\ prevMouse # Sentinel(kind) /\ prevMouse # mouse

C27_LatestMoveWins ==
  [][(kind = "ripple" /\ Running /\ Called("onMove")) =>
       /\ uPulseTime' = 0
       /\ uPulseAmp' = One
       /\ mouse' = <<lastCall'[2], RowY>>]_vars

\* a move restarted the pulse after frames had advanced the clock
C27_Witness ==
  /\ kind = "ripple" /\ Running /\ lastCall[1] = "onMove"
  /\ uTime >= 1 /\ uPulseTime = 0 /\ uPulseAmp = One
  /\ mouse = <<lastCall[2], RowY>>

\* C28: after every rendered frame of the ripple effect the amplitude is 0 or
\* lies in [0.01, 1], and it is 0 whenever the decayed value of that frame is
\* below 0.01 (decay >= 0, frame deltas >= 0)
C28_AmpZeroOrVisible ==
  [][(kind = "ripple" /\ Running /\ Rendered) =>
       /\ uPulseAmp' = 0 \/ (Epsilon <= uPulseAmp' /\ uPulseAmp' <= One)
       /\ Mul(uPulseAmp, ExpNeg(options.decay * (uTime' - uTime))) < Epsilon
            => uPulseAmp' = 0]_vars

\* a pulse started by a move has been stopped by a frame: the pointer is still
\* on the surface and the amplitude is 0
C28_Witness ==
  /\ kind = "ripple" /\ Running /\ lastCall[1] = "render"
  /\ mouse # Sentinel(kind) /\ framesSinceMove >= 1
  /\ uPulseAmp = 0

RECURSIVE DecayTimes(_, _, _)
\* v after n multiplications by the decay factor d
DecayTimes(n, v, d) == IF n = 0 THEN v ELSE DecayTimes(n - 1, Mul(v, d), d)

\* C29: a render() of the fluid effect that runs while the tracker is
\* inactive leaves at every pixel the old trail value multiplied by decay once
\* per pass, with nothing added, which is not more than the old value
C29_InactiveOnlyDecays ==
  [][(kind = "fluid" /\ Running /\ Rendered /\ ~isMoving) =>
       \A i \in Pixels :
         /\ PingBuf'[i] = DecayTimes(lastSteps', PingBuf[i], options.decay)
         /\ PingBuf'[i] <= PingBuf[i]]_vars

\* a frame rendered with the tracker inactive has decayed a trail that is
\* still visible
C29_Witness ==
  /\ kind = "fluid" /\ Running /\ lastCall[1] = "render"
  /\ ~isMoving /\ ~injected
  /\ \E i \in Pixels : /\ PingBuf[i] > 0
                         /\ PingBuf[i] < Target(Other(ping))[i]

\* the speed option of the fluid effect, in thousandths
SpeedOf(o) == o.speed * One + o.speedFrac

C31_VideoRefresh ==
  [][(kind = "glitch" /\ Running /\ Rendered) =>
       refreshed' = (options.source = "video" /\ imageState = "decoded")]_vars

\* animation frames of a video glitch were rendered while the video had no
\* current frame, and the latest one left the texture alone
C31_Witness ==
  /\ kind = "glitch" /\ Running /\ options.source = "video"
  /\ imageState = "decoding" /\ lastCall[1] = "render"
  /\ uTime >= 2 /\ ~refreshed

\* C32: the glitch effect registers no pointer listener, no step changes its
\* pointer or simulation state, and its uTime is 0 at creation and advances by
\* the same speed-scaled amount in every frame and in no other step, so it is
\* a function of the options and the number of frames rendered
C32_GlitchOnlyTime ==
  [][kind = "glitch" =>
       /\ listeners' = {}
       /\ UNCHANGED <<mouse, prevMouse, isMoving, movementTimeoutId, pendingTimers>>
       /\ UNCHANGED <<uPulseAmp, uPulseTime, frame, bufA, bufB, ping>>
       /\ status = "new" => uTime = 0
       /\ uTime' = IF Rendered THEN uTime + options.speed ELSE uTime]_vars

\* a glitch effect over an image has rendered three frames
C32_Witness ==
  /\ kind = "glitch" /\ Running /\ options.source = "image"
  /\ lastCall[1] = "render" /\ uTime = 3 * options.speed
  /\ listeners = {} /\ mouse = Sentinel(kind)

\* C33: the render surface and both simulation targets of the realistic
\* water effect are at most 384 x 288 after creation and after every frame
C33_WaterCapped ==
  (kind = "realistic" /\ Running) =>
    \A sz \in {canvasSize, sizeA, sizeB} : sz[1] <= 384 /\ sz[2] <= 288

\* C34: the fluid effect has at most one idle timer pending, and a timer
\* that fires is the one armed by the most recent move: no timer of an
\* earlier move is left to fire after a later move
C34_OneIdleTimer ==
  [][kind = "fluid" =>
       /\ Cardinality(pendingTimers') <= 1
       /\ pendingTimers' \subseteq {movementTimeoutId'}
       /\ Called("stopMovement") =>
            pendingTimers \ pendingTimers' = {movementTimeoutId}]_vars

\* the timer of a second move has fired, the timer of the first move having
\* been cleared by the second
C34_Witness ==
  /\ kind = "fluid" /\ Running /\ lastCall[1] = "stopMovement"
  /\ movementTimeoutId = 2 /\ pendingTimers = {} /\ ~isMoving

\* C35: after a move that found the fluid tracker inactive, no frame adds
\* trail intensity until the next move: the segment from the previous
\* position to the position has zero length
C35_FirstMoveDrawsNothing ==
  [][(kind = "fluid" /\ Running /\ Rendered /\ moveFromIdle) =>
       /\ ~injected'
       /\ isMoving => prevMouse = mouse]_vars

\* a frame has run its simulation steps on the active tracker left by a
\* first move over the canvas and added nothing to the trail
C35_Witness ==
  /\ kind = "fluid" /\ Running /\ lastCall[1] = "render"
  /\ moveFromIdle /\ isMoving /\ mouse # Sentinel(kind)
  /\ lastSteps >= 1 /\ lastReadPos = mouse /\ ~injected

\* C36: in a fluid effect created without backImageUrl, once the top image
\* has loaded the value of uBottomTextureSize equals the value of
\* uTopTextureSize
C36_SharedImageSameHint ==
  (kind = "fluid" /\ Running /\ ~options.backImage /\ imageState = "decoded")
    => textureSizes.bottom = textureSizes.top

\* C37: in every state in which the simple API has returned its function, a
\* call of that function leaves the instance registered for the selected
\* element disposed, whatever number of debug-panel re-creations came before
C37_ReturnedDisposesCurrent ==
  (disposes # {} /\ activeEffects["pic"] # Absent) =>
    activeEffects["pic"] \in returnedDispose(Registry).disposed

\* C38: every effect instance that was created and is not disposed has its
\* dispose function stored in activeEffects under some element
C38_RunningIsRegistered ==
  \A i \in (1..created) \ disposedInst : \E e \in Elems : activeEffects[e] = i

\* C39: every frame of the glitch effect leaves the canvas backing size at
\* round(clientWidth x dpr) by round(clientHeight x dpr), the size
\* resizeIfNeeded compares it with, so that a frame after a handled change of
\* display size finds nothing to set, at every pixel ratio
C39_GlitchResizeSettles ==
  [][(kind = "glitch" /\ Running /\ Rendered) =>
       canvasSize' = WantedSize(kind, options, clientSize)]_vars

\* C40: onLeave of the ripple effect leaves the amplitude 0 and the pointer
\* position at the off-surface sentinel, and while the position is the
\* sentinel (no move since) every frame leaves the amplitude 0
C40_LeaveStopsPulse ==
  /\ [][(kind = "ripple" /\ Running /\ Called("onLeave")) =>
          uPulseAmp' = 0 /\ mouse' = Sentinel(kind)]_vars
  /\ []((kind = "ripple" /\ Running /\ mouse = Sentinel(kind)) => uPulseAmp = 0)

\* the pointer left right after a move had started a pulse, and a frame
\* rendered one clock unit later, when that pulse would still be visible,
\* drew with amplitude 0
C40_Witness ==
  /\ kind = "ripple" /\ Running /\ lastCall[1] = "render" /\ touched
  /\ mouse = Sentinel(kind) /\ uPulseTime = 1
  /\ RippleAmp(One, options.decay, 1) > 0 /\ uPulseAmp = 0

====
